---- MODULE Spec2Model ----
(***************************************************************************)
(* account-setup: the encrypted credential repository, the session manager,*)
(* the login lockout counter and the signup, logout and app-start flows of *)
(* the React Native application.                                           *)
(*                                                                         *)
(* services/keychainService  (src/src/screens/HomeScreen/index.tsx 251-531)*)
(* HomeScreen.handleLogout   (src/src/screens/HomeScreen/index.tsx 22-38)  *)
(* SplashScreen              (src/src/screens/HomeScreen/index.tsx 171-215)*)
(* LoginScreen               (src/src/screens/LoginScreen/index.tsx 67-178)*)
(* SignUpScreen              (src/src/screens/SignUpScreen/index.tsx 58-186)*)
(*                                                                         *)
(* JavaScript strings on which the code performs case conversion (emails,  *)
(* passwords) are sequences of one-character strings, so that toLowerCase  *)
(* is computed character by character.  Every other "string like" value    *)
(* (JSON text, cipher text) is a record carrying a kind field.             *)
(***************************************************************************)
EXTENDS Integers, Sequences, FiniteSets, TLC

VARIABLES
    keychain,        \* react-native-keychain: service id -> stored entry
    clock,           \* the wall clock read by Date.now()
    ret,             \* the last completed keychainService call and its result
    sessionLog,      \* history of the createSession/clearSession calls made so far
    values,          \* LoginScreen: formik.values {email, password}
    failedAttempts,  \* LoginScreen: useState<number>(0)
    isLockedOut,     \* LoginScreen: useState<boolean>(false)
    loginError,      \* LoginScreen: useState<string>('')
    isSubmitting,    \* LoginScreen: formik.isSubmitting
    submissions,     \* LoginScreen: the onSubmit invocations awaiting a promise
    userData,        \* redux: state.authentication.userData
    route,           \* navigation: the focused screen
    seqFails,        \* history: failed submissions completed one at a time since Active(0)
    lastStep,        \* history: the last step of a screen
    asyncStorage,    \* AsyncStorage: key -> stored text
    signupValues,    \* SignUpScreen: formik.values
    signups,         \* SignUpScreen: the onSubmit invocations awaiting a promise
    registered,      \* history: the emails storeCredentialsInKeychain returned true for
    storageQueue,    \* AsyncStorage: the setItem/removeItem calls issued and not yet settled
    draftCleared,    \* history: a signup removed the draft and no signup field changed since
    calls            \* storeCredentialsInKeychain: the calls made, each with its position

keychainVars == <<keychain, clock, ret, sessionLog>>
loginVars == <<values, failedAttempts, isLockedOut, loginError, isSubmitting,
               submissions, userData, route, seqFails, lastStep>>
signupVars == <<asyncStorage, signupValues, signups, registered, storageQueue,
                draftCleared, calls>>
vars == <<keychain, clock, ret, sessionLog, values, failedAttempts, isLockedOut,
          loginError, isSubmitting, submissions, userData, route, seqFails, lastStep,
          asyncStorage, signupValues, signups, registered, storageQueue,
          draftCleared, calls>>

----------------------------------------------------------------------------
(* Bounds of the model *)

\* Date.now() never returns more than this
MaxClock == 3
\* onSubmit invocations of the login form that may be awaiting at once
MaxPending == 2
\* onSubmit invocations of the signup form that may be awaiting at once
MaxSignUps == 1
\* AsyncStorage calls that may be issued and not yet settled at once
MaxQueue == 2
\* storeCredentialsInKeychain calls made in one run of the concurrent calls
MaxCalls == 2

----------------------------------------------------------------------------
(* Input domains *)

Emails == { <<"a", "@", "x">>, <<"A", "@", "X">>, <<"b", "@", "x">>, <<"B", "@", "x">> }
Passwords == { <<"p", "w", "1">>, <<"P", "W", "1">> }
Profiles == { [firstName |-> "John", lastName |-> "Doe",   phoneNumber |-> "1234567890"],
              [firstName |-> "Jane", lastName |-> "Smith", phoneNumber |-> "0987654321"],
              [firstName |-> "Jane", lastName |-> "Doe",   phoneNumber |-> "1234567890"] }

----------------------------------------------------------------------------
(* String.prototype.toLowerCase *)

toLowerCaseChar(c) ==
    CASE c = "A" -> "a"
      [] c = "B" -> "b"
      [] c = "P" -> "p"
      [] c = "W" -> "w"
      [] c = "X" -> "x"
      [] OTHER -> c

toLowerCase(s) == [i \in DOMAIN s |-> toLowerCaseChar(s[i])]

----------------------------------------------------------------------------
(* Constants of keychainService *)

KEYCHAIN_SERVICE == "AccountSetup"
USER_DATA_KEY == "userData"
CREDENTIALS_KEY == "credentials"
SESSION_KEY == "session"
ENCRYPTION_KEY == "AccountSetupSecretKey2024!"

\* a credentials slot that shares the keychain service of the session slot
CredentialsService_session == "AccountSetup_session"

\* `${KEYCHAIN_SERVICE}_${CREDENTIALS_KEY}` and `${KEYCHAIN_SERVICE}_${SESSION_KEY}`
CredentialsService == "AccountSetup_credentials"
SessionService == "AccountSetup_session"
Services == {KEYCHAIN_SERVICE, CredentialsService, SessionService}

Null == [kind |-> "null"]

----------------------------------------------------------------------------
(* JSON and CryptoJS.AES *)

EmptyString == [kind |-> "text", text |-> ""]

\* JSON.stringify: the JSON text of a value.  type is the run-time type of v
\* ("array", "object" or "null"), which a JSON text shows and a TLA+ value
\* does not.
JSONstringify(v, type) == [kind |-> "json", type |-> type, value |-> v]

\* JSON.parse: the value of a JSON text and its run-time type; any other text
\* throws SyntaxError
JSONparse(s) ==
    IF s.kind = "json" THEN [threw |-> FALSE, type |-> s.type, value |-> s.value]
    ELSE [threw |-> TRUE, type |-> "null", value |-> Null]

encryptData(data) == [kind |-> "aes", key |-> ENCRYPTION_KEY, data |-> data]

\* what was not encrypted under ENCRYPTION_KEY decrypts to no usable text (or
\* toString(Utf8) throws, which the callers' catch treats like a failed parse)
decryptData(encryptedData) ==
    IF encryptedData.kind = "aes" /\ encryptedData.key = ENCRYPTION_KEY
    THEN encryptedData.data
    ELSE EmptyString

----------------------------------------------------------------------------
(* react-native-keychain *)

\* getGenericPassword resolves false for a service that holds nothing
NoEntry == [kind |-> "false"]

setGenericPassword(kc, username, password, service) ==
    [kc EXCEPT ![service] =
        [kind |-> "entry", username |-> username, password |-> password]]

getGenericPassword(kc, service) == kc[service]

resetGenericPassword(kc, service) == [kc EXCEPT ![service] = NoEntry]

----------------------------------------------------------------------------
(* Credential repository.  readOk / writeOk: whether the keychain call the *)
(* function awaits resolves (TRUE) or rejects (FALSE).                     *)

\* getCredentialsFromKeychain: the value it resolves to, with its run-time type
readCredentials(kc, readOk) ==
    IF ~readOk THEN [type |-> "array", value |-> <<>>]
    ELSE LET credentials == getGenericPassword(kc, CredentialsService) IN
         IF credentials.kind = "entry"
         THEN LET parsed == JSONparse(decryptData(credentials.password)) IN
              IF parsed.threw THEN [type |-> "array", value |-> <<>>]
              ELSE [type |-> parsed.type, value |-> parsed.value]
         ELSE [type |-> "array", value |-> <<>>]

getCredentialsFromKeychain(kc, readOk) == readCredentials(kc, readOk).value

\* findIndex comparing the stored email with the argument as typed
findIndexByEmail_asTyped(list, email) ==
    LET hits == {i \in 1..Len(list) : toLowerCase(list[i].email) = email} IN
    IF hits = {} THEN -1
    ELSE (CHOOSE i \in hits : \A j \in hits : i <= j) - 1

\* Array.prototype.findIndex with the predicate of storeCredentialsInKeychain:
\* the 0-based index of the first entry for the email, -1 when there is none
findIndexByEmail(list, email) ==
    LET hits == {i \in 1..Len(list) : toLowerCase(list[i].email) = toLowerCase(email)} IN
    IF hits = {} THEN -1
    ELSE (CHOOSE i \in hits : \A j \in hits : i <= j) - 1

\* a credential keeping the email as typed
newCredential_asTyped(email, password, profile) ==
    [email |-> email,
     password |-> password,
     firstName |-> profile.firstName,
     lastName |-> profile.lastName,
     phoneNumber |-> profile.phoneNumber]

newCredential(email, password, profile) ==
    [email |-> toLowerCase(email),
     password |-> password,
     firstName |-> profile.firstName,
     lastName |-> profile.lastName,
     phoneNumber |-> profile.phoneNumber]

\* an upsert that forgets the list it read
updatedCredentials_onlyNew(existingCredentials, email, password, profile) ==
    << [email |-> toLowerCase(email),
        password |-> password,
        firstName |-> profile.firstName,
        lastName |-> profile.lastName,
        phoneNumber |-> profile.phoneNumber] >>

\* an upsert that always appends
updatedCredentials_append(existingCredentials, email, password, profile) ==
    Append(existingCredentials,
           [email |-> toLowerCase(email),
            password |-> password,
            firstName |-> profile.firstName,
            lastName |-> profile.lastName,
            phoneNumber |-> profile.phoneNumber])

updatedCredentials(existingCredentials, email, password, profile) ==
    LET credentialIndex == findIndexByEmail(existingCredentials, email) IN
    IF credentialIndex >= 0
    THEN [existingCredentials EXCEPT ![credentialIndex + 1] =
              newCredential(email, password, profile)]
    ELSE Append(existingCredentials, newCredential(email, password, profile))

\* the keychain after the call, and the boolean the call resolves to
\* (existingCredentials.findIndex throws TypeError on what is not an array)
storeCredentialsInKeychain(kc, readOk, writeOk, email, password, profile) ==
    LET read == readCredentials(kc, readOk) IN
    IF read.type # "array" THEN [keychain |-> kc, result |-> FALSE]
    ELSE LET existingCredentials == read.value
             jsonData == JSONstringify(
                 updatedCredentials(existingCredentials, email, password, profile),
                 "array")
             encryptedData == encryptData(jsonData)
         IN  IF writeOk
             THEN [keychain |-> setGenericPassword(kc, CREDENTIALS_KEY, encryptedData,
                                                   CredentialsService),
                   result |-> TRUE]
             ELSE [keychain |-> kc, result |-> FALSE]

\* a match that ignores the letter case of the password
matchesCredential_anyCase(cred, normalizedEmail, password) ==
    toLowerCase(cred.email) = normalizedEmail
    /\ toLowerCase(cred.password) = toLowerCase(password)

\* Array.prototype.find with the predicate of validateCredentials
matchesCredential(cred, normalizedEmail, password) ==
    toLowerCase(cred.email) = normalizedEmail /\ cred.password = password

\* (credentials.find throws TypeError on what is not an array)
validateCredentials(kc, readOk, email, password) ==
    LET read == readCredentials(kc, readOk)
        credentials == read.value
        normalizedEmail == toLowerCase(email)
    IN  /\ read.type = "array"
        /\ \E i \in 1..Len(credentials) :
              matchesCredential(credentials[i], normalizedEmail, password)

\* a lookup that compares with the email as typed
getCredentialByEmail_asTyped(kc, readOk, email) ==
    LET read == readCredentials(kc, readOk) IN
    IF read.type # "array" THEN Null
    ELSE LET credentials == read.value
             hits == {i \in 1..Len(credentials) :
                         toLowerCase(credentials[i].email) = email}
         IN  IF hits = {} THEN Null
             ELSE credentials[CHOOSE i \in hits : \A j \in hits : i <= j]

\* (credentials.find throws TypeError on what is not an array)
getCredentialByEmail(kc, readOk, email) ==
    LET read == readCredentials(kc, readOk) IN
    IF read.type # "array" THEN Null
    ELSE LET credentials == read.value
             normalizedEmail == toLowerCase(email)
             hits == {i \in 1..Len(credentials) :
                         toLowerCase(credentials[i].email) = normalizedEmail}
         IN  IF hits = {} THEN Null
             ELSE credentials[CHOOSE i \in hits : \A j \in hits : i <= j]

----------------------------------------------------------------------------
(* Session manager.  now: the value Date.now() returns inside the call.    *)

\* a session keeping the email as typed
createSession_asTyped(kc, writeOk, email, now) ==
    LET session == [email |-> email, timestamp |-> now]
        encryptedData == encryptData(JSONstringify(session, "object"))
    IN  IF writeOk
        THEN [keychain |-> setGenericPassword(kc, SESSION_KEY, encryptedData,
                                              SessionService),
              result |-> TRUE]
        ELSE [keychain |-> kc, result |-> FALSE]

createSession(kc, writeOk, email, now) ==
    LET session == [email |-> toLowerCase(email), timestamp |-> now]
        encryptedData == encryptData(JSONstringify(session, "object"))
    IN  IF writeOk
        THEN [keychain |-> setGenericPassword(kc, SESSION_KEY, encryptedData,
                                              SessionService),
              result |-> TRUE]
        ELSE [keychain |-> kc, result |-> FALSE]

\* the rejection of the keychain read handed on instead of caught
readSession_noCatch(kc, readOk) ==
    IF ~readOk THEN [type |-> "exception", value |-> [kind |-> "exception"]]
    ELSE LET credentials == getGenericPassword(kc, SessionService) IN
         IF credentials.kind = "entry"
         THEN LET parsed == JSONparse(decryptData(credentials.password)) IN
              IF parsed.threw THEN [type |-> "null", value |-> Null]
              ELSE [type |-> parsed.type, value |-> parsed.value]
         ELSE [type |-> "null", value |-> Null]

\* getSession: the value it resolves to, with its run-time type
readSession(kc, readOk) ==
    IF ~readOk THEN [type |-> "null", value |-> Null]
    ELSE LET credentials == getGenericPassword(kc, SessionService) IN
         IF credentials.kind = "entry"
         THEN LET parsed == JSONparse(decryptData(credentials.password)) IN
              IF parsed.threw THEN [type |-> "null", value |-> Null]
              ELSE [type |-> parsed.type, value |-> parsed.value]
         ELSE [type |-> "null", value |-> Null]

getSession(kc, readOk) == readSession(kc, readOk).value

\* a reset of the user data service instead of the session service
clearSession_userData(kc, resetOk) ==
    IF resetOk
    THEN [keychain |-> resetGenericPassword(kc, KEYCHAIN_SERVICE), result |-> TRUE]
    ELSE [keychain |-> kc, result |-> FALSE]

clearSession(kc, resetOk) ==
    IF resetOk
    THEN [keychain |-> resetGenericPassword(kc, SessionService), result |-> TRUE]
    ELSE [keychain |-> kc, result |-> FALSE]

\* a reset of the credentials service instead of the user data service
clearUserDataFromKeychain_credentials(kc, resetOk) ==
    IF resetOk
    THEN [keychain |-> resetGenericPassword(kc, CredentialsService), result |-> TRUE]
    ELSE [keychain |-> kc, result |-> FALSE]

clearUserDataFromKeychain(kc, resetOk) ==
    IF resetOk
    THEN [keychain |-> resetGenericPassword(kc, KEYCHAIN_SERVICE), result |-> TRUE]
    ELSE [keychain |-> kc, result |-> FALSE]

----------------------------------------------------------------------------
(* LoginScreen: constants and the pieces of onSubmit *)

MAX_FAILED_ATTEMPTS == 5

\* the values of loginError
NoError == <<>>
LockoutMessage == <<"You have been locked out due to multiple failed login attempts.">>
InvalidMessage(remaining) ==
    <<"Invalid email or password. ", remaining, " attempt(s) remaining.">>
UserDataNotFound == <<"User data not found">>
FailedToCreateSession == <<"Failed to create session">>

\* validationSchema, on the input domains: both fields filled in
isValid(v) == v.email \in Emails /\ v.password \in Passwords

\* a lockout one failure late
lockoutReached_late(newAttempts) == newAttempts > MAX_FAILED_ATTEMPTS

\* newAttempts >= MAX_FAILED_ATTEMPTS
lockoutReached(newAttempts) == newAttempts >= MAX_FAILED_ATTEMPTS

\* an effect that forgets the lockout flag
emailChangeEffect_keepsLock(attempts, locked, error) ==
    [failedAttempts |-> 0, isLockedOut |-> locked, loginError |-> NoError]

\* useEffect(..., [formik.values.email]): the state it sets
emailChangeEffect(attempts, locked, error) ==
    [failedAttempts |-> 0, isLockedOut |-> FALSE, loginError |-> NoError]

\* a successful validation that leaves the lockout state as it was
resetOnSuccess_keepsState(attempts, locked) ==
    [failedAttempts |-> attempts, isLockedOut |-> locked]

\* onSubmit after a successful validation:
\* setFailedAttempts(0); setIsLockedOut(false)
resetOnSuccess(attempts, locked) ==
    [failedAttempts |-> 0, isLockedOut |-> FALSE]

\* a login that goes on to createSession whatever the lookup returned
afterGetCredential_always(credential) == "createSession"

\* onSubmit after await getCredentialByEmail: where it goes next
afterGetCredential(credential) ==
    IF credential = Null THEN "return" ELSE "createSession"

\* the profile dispatched to redux: the credential without its password
userDataOf(credential) ==
    [email |-> credential.email,
     firstName |-> credential.firstName,
     lastName |-> credential.lastName,
     phoneNumber |-> credential.phoneNumber]

----------------------------------------------------------------------------
(* SignUpScreen: the form and its draft in AsyncStorage *)

SIGNUP_FORM_STORAGE_KEY == "@AccountSetup:signupFormData"

EmptyProfile == [firstName |-> "", lastName |-> "", phoneNumber |-> ""]

\* the initial formik values: every field ''
EmptyForm ==
    [email |-> <<>>, password |-> <<>>, confirmPassword |-> <<>>,
     profile |-> EmptyProfile]

\* validationSchema, on the input domains: every field filled in and
\* confirmPassword equal to password
isValidSignUp(v) ==
    /\ v.email # <<>>
    /\ v.password # <<>>
    /\ v.confirmPassword = v.password
    /\ v.profile # EmptyProfile

\* hasAnyValue of the saveFormData effect
hasAnyValue(v) ==
    \/ v.email # <<>>
    \/ v.password # <<>>
    \/ v.confirmPassword # <<>>
    \/ v.profile # EmptyProfile

\* a draft that leaves the two password fields out
formData_noPassword(v) ==
    [email |-> v.email, password |-> <<>>, confirmPassword |-> <<>>,
     profile |-> v.profile]

\* formData of the saveFormData effect: all six fields of the form
formData(v) ==
    [email |-> v.email, password |-> v.password,
     confirmPassword |-> v.confirmPassword, profile |-> v.profile]

\* a signup that goes on to createSession whatever the upsert returned
afterStoreCredentials_always(credentialsSuccess) == "createSession"

\* onSubmit after await storeCredentialsInKeychain: where it goes next
afterStoreCredentials(credentialsSuccess) ==
    IF ~credentialsSuccess THEN "return" ELSE "createSession"

\* onSubmit after await createSession: where it goes next
afterCreateSession(sessionSuccess) ==
    IF ~sessionSuccess THEN "return" ELSE "removeItem"

\* the profile the signup dispatches to redux: the form values as typed
signupUserData(v) ==
    [email |-> v.email,
     firstName |-> v.profile.firstName,
     lastName |-> v.profile.lastName,
     phoneNumber |-> v.profile.phoneNumber]

----------------------------------------------------------------------------
(* SplashScreen.checkAuthenticationStatus: the session and the credential   *)
(* it read, what it dispatched to redux (Null: nothing) and the             *)
(* navigation.navigate calls it made, in order.  session.email of a value   *)
(* that is not an object is undefined, and getCredentialByEmail(undefined)  *)
(* catches the TypeError of email.toLowerCase() and returns null.           *)

\* a check that goes Home on any session
checkAuthenticationStatus_anySession(kc, sessionReadOk, credentialReadOk) ==
    LET session == readSession(kc, sessionReadOk)
        credential == IF session.type = "object"
                      THEN getCredentialByEmail(kc, credentialReadOk, session.value.email)
                      ELSE Null
    IN  IF session.type # "null"
        THEN [session |-> session, credential |-> credential,
              dispatched |-> IF credential # Null THEN userDataOf(credential) ELSE Null,
              navigations |-> <<"Home">>]
        ELSE [session |-> session, credential |-> Null, dispatched |-> Null,
              navigations |-> <<"Login">>]

checkAuthenticationStatus(kc, sessionReadOk, credentialReadOk) ==
    LET session == readSession(kc, sessionReadOk)
        credential == IF session.type = "object"
                      THEN getCredentialByEmail(kc, credentialReadOk, session.value.email)
                      ELSE Null
    IN  IF session.type # "null"
        THEN IF credential # Null
             THEN [session |-> session, credential |-> credential,
                   dispatched |-> userDataOf(credential),
                   navigations |-> <<"Home">>]
             ELSE [session |-> session, credential |-> Null, dispatched |-> Null,
                   navigations |-> <<"Login">>]
        ELSE [session |-> session, credential |-> Null, dispatched |-> Null,
              navigations |-> <<"Login">>]

----------------------------------------------------------------------------
(* Initial state: nothing stored, the login form as first rendered *)

Init ==
    /\ keychain = [s \in Services |-> NoEntry]
    /\ clock = 0
    /\ ret = [fn |-> "none"]
    /\ sessionLog = [fault |-> FALSE, cleared |-> FALSE, replaced |-> FALSE,
                     last |-> Null]
    /\ values = [email |-> <<>>, password |-> <<>>]
    /\ failedAttempts = 0
    /\ isLockedOut = FALSE
    /\ loginError = NoError
    /\ isSubmitting = FALSE
    /\ submissions = <<>>
    /\ userData = Null
    /\ route = "Login"
    /\ seqFails = 0
    /\ lastStep = [kind |-> "none", wasLocked |-> FALSE, calledValidate |-> FALSE]
    /\ asyncStorage = [k \in {SIGNUP_FORM_STORAGE_KEY} |-> Null]
    /\ signupValues = EmptyForm
    /\ signups = <<>>
    /\ registered = {}
    /\ storageQueue = <<>>
    /\ draftCleared = FALSE
    /\ calls = <<>>

\* the list the credentials slot decodes to (what a successful read returns)
StoredCredentials == getCredentialsFromKeychain(keychain, TRUE)

\* history recorded with a store call: what the list held for the email before
\* it ("none", "same": an entry with the very fields of the call, "other")
PriorEntry(list, email, password, profile) ==
    LET hits == {i \in 1..Len(list) : toLowerCase(list[i].email) = toLowerCase(email)} IN
    IF hits = {} THEN "none"
    ELSE IF \A i \in hits : /\ list[i].password = password
                             /\ list[i].firstName = profile.firstName
                             /\ list[i].lastName = profile.lastName
                             /\ list[i].phoneNumber = profile.phoneNumber
         THEN "same"
         ELSE "other"

----------------------------------------------------------------------------
(* Calls of the credential repository, each awaited to completion *)

\* storeCredentialsInKeychain called with arguments from the given sets
StoreCredentialsOf(emails, passwords, profiles) ==
    \E email \in emails, password \in passwords, profile \in profiles,
       readOk \in BOOLEAN, writeOk \in BOOLEAN :
        LET r == storeCredentialsInKeychain(keychain, readOk, writeOk,
                                            email, password, profile)
        IN  /\ keychain' = r.keychain
            /\ ret' = [fn |-> "storeCredentialsInKeychain", email |-> email,
                       password |-> password, profile |-> profile,
                       readOk |-> readOk, writeOk |-> writeOk,
                       result |-> r.result,
                       prior |-> IF readCredentials(keychain, TRUE).type = "array"
                                 THEN PriorEntry(StoredCredentials, email, password,
                                                 profile)
                                 ELSE "none"]
            /\ registered' = IF r.result THEN registered \cup {toLowerCase(email)}
                             ELSE registered
            /\ UNCHANGED <<clock, sessionLog>>
            /\ UNCHANGED loginVars
            /\ UNCHANGED <<asyncStorage, signupValues, signups, storageQueue,
                           draftCleared, calls>>

StoreCredentials == StoreCredentialsOf(Emails, Passwords, Profiles)

GetCredentials ==
    \E readOk \in BOOLEAN :
        /\ ret' = [fn |-> "getCredentialsFromKeychain", readOk |-> readOk,
                   result |-> getCredentialsFromKeychain(keychain, readOk)]
        /\ UNCHANGED <<keychain, clock, sessionLog>>
        /\ UNCHANGED loginVars
        /\ UNCHANGED signupVars

ValidateCredentials ==
    \E email \in Emails, password \in Passwords, readOk \in BOOLEAN :
        /\ ret' = [fn |-> "validateCredentials", email |-> email,
                   password |-> password, readOk |-> readOk,
                   result |-> validateCredentials(keychain, readOk, email, password)]
        /\ UNCHANGED <<keychain, clock, sessionLog>>
        /\ UNCHANGED loginVars
        /\ UNCHANGED signupVars

GetCredentialByEmail ==
    \E email \in Emails, readOk \in BOOLEAN :
        /\ ret' = [fn |-> "getCredentialByEmail", email |-> email, readOk |-> readOk,
                   result |-> getCredentialByEmail(keychain, readOk, email)]
        /\ UNCHANGED <<keychain, clock, sessionLog>>
        /\ UNCHANGED loginVars
        /\ UNCHANGED signupVars

Next ==
    \/ StoreCredentials
    \/ GetCredentials
    \/ ValidateCredentials
    \/ GetCredentialByEmail

Spec == Init /\ [][Next]_vars

----------------------------------------------------------------------------
(* Properties of the credential repository (specification Spec) *)

\* the credential a call recorded in ret asked to store
RetCredential ==
    [email |-> toLowerCase(ret.email),
     password |-> ret.password,
     firstName |-> ret.profile.firstName,
     lastName |-> ret.profile.lastName,
     phoneNumber |-> ret.profile.phoneNumber]

EntriesFor(list, email) ==
    {i \in 1..Len(list) : toLowerCase(list[i].email) = toLowerCase(email)}

\* C1: starting from an absent credentials slot, after any sequence of
\* storeCredentialsInKeychain calls (emails in any letter case) the stored list
\* holds at most one entry per lowercase-normalized email.
C1_UniqueEmail ==
    \A i, j \in 1..Len(StoredCredentials) :
        toLowerCase(StoredCredentials[i].email) = toLowerCase(StoredCredentials[j].email)
            => i = j

\* a store under an upper-case spelling met the entry of the lower-case one,
\* beside the entry of another email
C1_Witness ==
    /\ ret.fn = "storeCredentialsInKeychain"
    /\ ret.result
    /\ ret.prior # "none"
    /\ ret.email # toLowerCase(ret.email)
    /\ Len(StoredCredentials) = 2

\* C2: validateCredentials(email, password), its keychain read answered, returns
\* true iff the stored list holds an entry whose lowercase email is
\* lowercase(email) and whose password equals the supplied one exactly; a
\* password that differs only in letter case yields false.
C2_ValidateIff ==
    (ret.fn = "validateCredentials" /\ ret.readOk) =>
        /\ ret.result =
              (\E i \in 1..Len(StoredCredentials) :
                  /\ toLowerCase(StoredCredentials[i].email) = toLowerCase(ret.email)
                  /\ StoredCredentials[i].password = ret.password)
        /\ (\A i \in EntriesFor(StoredCredentials, ret.email) :
                StoredCredentials[i].password # ret.password) => ~ret.result

\* the email is registered and the supplied password differs from the stored
\* one only in letter case: the call returned false
C2_Witness ==
    /\ ret.fn = "validateCredentials"
    /\ ret.readOk
    /\ ~ret.result
    /\ \E i \in EntriesFor(StoredCredentials, ret.email) :
          /\ StoredCredentials[i].password # ret.password
          /\ toLowerCase(StoredCredentials[i].password) = toLowerCase(ret.password)

\* C3: after a storeCredentialsInKeychain call that returned true, whatever an
\* earlier call stored for the same normalized email, the list holds exactly one
\* entry for that email and it carries the password, firstName, lastName and
\* phoneNumber of this call (last write wins, no merge, no duplicate).
C3_LastWriteWins ==
    (ret.fn = "storeCredentialsInKeychain" /\ ret.result) =>
        /\ Cardinality(EntriesFor(StoredCredentials, ret.email)) = 1
        /\ \A i \in EntriesFor(StoredCredentials, ret.email) :
              StoredCredentials[i] = RetCredential

\* the second of two calls for one normalized email: the list held an entry
\* with other fields for it, and now holds this call's fields
C3_Witness ==
    /\ ret.fn = "storeCredentialsInKeychain"
    /\ ret.result
    /\ ret.prior = "other"
    /\ \E i \in 1..Len(StoredCredentials) : StoredCredentials[i] = RetCredential

SameEmail(e1, e2) == toLowerCase(e1) = toLowerCase(e2)

\* C7: on every reachable keychain, for any two emails that differ only in letter
\* case, storeCredentialsInKeychain, validateCredentials and getCredentialByEmail
\* give the same result and leave the same stored list whichever spelling is
\* passed.
C7_CaseInsensitive ==
    \A e1, e2 \in Emails :
        SameEmail(e1, e2) =>
            /\ \A readOk \in BOOLEAN :
                  /\ getCredentialByEmail(keychain, readOk, e1)
                        = getCredentialByEmail(keychain, readOk, e2)
                  /\ \A password \in Passwords :
                        validateCredentials(keychain, readOk, e1, password)
                          = validateCredentials(keychain, readOk, e2, password)
            /\ \A readOk, writeOk \in BOOLEAN, password \in Passwords, profile \in Profiles :
                  storeCredentialsInKeychain(keychain, readOk, writeOk, e1, password, profile)
                    = storeCredentialsInKeychain(keychain, readOk, writeOk, e2, password, profile)

\* a lookup under a spelling that is not the stored one found the credential
C7_Witness ==
    /\ ret.fn = "getCredentialByEmail"
    /\ ret.email # toLowerCase(ret.email)
    /\ ret.result # Null
    /\ ret.result.email = toLowerCase(ret.email)

\* C8: after storeCredentialsInKeychain(email, password, firstName, lastName,
\* phoneNumber) returned true, getCredentialByEmail(email), its keychain read
\* answered, returns the credential with these fields and email lowercase(email).
C8_RoundTrip ==
    (ret.fn = "storeCredentialsInKeychain" /\ ret.result) =>
        getCredentialByEmail(keychain, TRUE, ret.email) = RetCredential

\* a store under an upper-case spelling returned true with another email stored
C8_Witness ==
    /\ ret.fn = "storeCredentialsInKeychain"
    /\ ret.result
    /\ ret.email # toLowerCase(ret.email)
    /\ \E i \in 1..Len(StoredCredentials) :
          toLowerCase(StoredCredentials[i].email) # toLowerCase(ret.email)

\* C14: storeCredentialsInKeychain returns false whenever any keychain call it
\* makes fails (the read of the existing list or the write of the updated
\* list), and returns true only when none failed.
C14_StoreFalseOnAnyFailure ==
    ret.fn = "storeCredentialsInKeychain" =>
        (ret.result <=> (ret.readOk /\ ret.writeOk))

----------------------------------------------------------------------------
(* Calls of the session manager, each awaited to completion (SpecSession). *)
(* sessionLog is history only: fault, a keychain call of createSession or  *)
(* clearSession rejected; cleared, a clearSession succeeded; replaced, a   *)
(* createSession overwrote a stored session; last, the session the most    *)
(* recent successful createSession wrote, Null after a clearSession.       *)

CreateSession ==
    \E email \in Emails, writeOk \in BOOLEAN, now \in clock..MaxClock :
        LET r == createSession(keychain, writeOk, email, now) IN
        /\ keychain' = r.keychain
        /\ clock' = now
        /\ ret' = [fn |-> "createSession", email |-> email, clockBefore |-> clock,
                   writeOk |-> writeOk, result |-> r.result]
        /\ sessionLog' =
              IF writeOk
              THEN [sessionLog EXCEPT
                      !.replaced = @ \/ keychain[SessionService] # NoEntry,
                      !.last = [email |-> toLowerCase(email), timestamp |-> now]]
              ELSE [sessionLog EXCEPT !.fault = TRUE]
        /\ UNCHANGED loginVars
        /\ UNCHANGED signupVars

GetSession ==
    \E readOk \in BOOLEAN :
        /\ ret' = [fn |-> "getSession", readOk |-> readOk,
                   result |-> getSession(keychain, readOk)]
        /\ UNCHANGED <<keychain, clock, sessionLog>>
        /\ UNCHANGED loginVars
        /\ UNCHANGED signupVars

ClearSession ==
    \E resetOk \in BOOLEAN :
        LET r == clearSession(keychain, resetOk) IN
        /\ keychain' = r.keychain
        /\ ret' = [fn |-> "clearSession", resetOk |-> resetOk, result |-> r.result]
        /\ sessionLog' =
              IF resetOk
              THEN [sessionLog EXCEPT !.cleared = TRUE, !.last = Null]
              ELSE [sessionLog EXCEPT !.fault = TRUE]
        /\ UNCHANGED clock
        /\ UNCHANGED loginVars
        /\ UNCHANGED signupVars

NextSession ==
    \/ CreateSession
    \/ GetSession
    \/ ClearSession

SpecSession == Init /\ [][NextSession]_vars

\* C9: after createSession(e) returned true, getSession(), its keychain read
\* answered, returns a session whose email is lowercase(e) and whose timestamp
\* is at least the clock value just before createSession was called.
C9_SessionAfterCreate ==
    (ret.fn = "createSession" /\ ret.result) =>
        LET session == getSession(keychain, TRUE) IN
        /\ session # Null
        /\ session.email = toLowerCase(ret.email)
        /\ session.timestamp >= ret.clockBefore

\* createSession under an upper-case spelling returned true, and time passed
\* between the caller's look at the clock and Date.now() inside the call
C9_Witness ==
    /\ ret.fn = "createSession"
    /\ ret.result
    /\ ret.email # toLowerCase(ret.email)
    /\ ret.clockBefore > 0
    /\ getSession(keychain, TRUE) # Null
    /\ getSession(keychain, TRUE).timestamp > ret.clockBefore

\* C10: after any sequence of createSession and clearSession calls whose keychain
\* operations succeeded, getSession() (its read answered) returns null if no
\* createSession has happened or the most recent call was clearSession, and
\* otherwise exactly the session the most recent createSession wrote.
C10_SessionSlot ==
    ~sessionLog.fault =>
        /\ getSession(keychain, TRUE) = sessionLog.last
        /\ (ret.fn = "getSession" /\ ret.readOk) => ret.result = sessionLog.last

\* getSession returned the session of a createSession that came after a
\* clearSession, in a run where a session had also been overwritten
C10_Witness ==
    /\ ~sessionLog.fault
    /\ sessionLog.cleared
    /\ sessionLog.replaced
    /\ ret.fn = "getSession"
    /\ ret.readOk
    /\ ret.result # Null
    /\ ret.result = sessionLog.last

----------------------------------------------------------------------------
(* LoginScreen (SpecLogin).  One account is registered.  An onSubmit       *)
(* invocation runs up to its first await in the step that starts it and    *)
(* then one step per awaited promise; it reads failedAttempts and          *)
(* isLockedOut from the render in which it was started.  The Login button  *)
(* is disabled while isSubmitting or isLockedOut; the password field's     *)
(* onSubmitEditing calls formik.handleSubmit() without that guard.         *)
(*                                                                         *)
(* seqFails is history only: the number of failed submissions since the    *)
(* screen was in Active(0) with no validation pending, as long as no two   *)
(* validations were pending at once and the email did not change during    *)
(* one; -1 otherwise.  The field failsSinceChange of a pending submission  *)
(* is history only as well: -1 as long as the email field did not change   *)
(* while the submission awaited validateCredentials (and again once the    *)
(* validation succeeded), else 0 when no failed validation has             *)
(* completed since the most recent change and 1 when at least one has.     *)

RegisteredEmail == <<"a", "@", "x">>
RegisteredPassword == <<"p", "w", "1">>
RegisteredProfile ==
    [firstName |-> "John", lastName |-> "Doe", phoneNumber |-> "1234567890"]

LoginEmails == { <<"A", "@", "X">>, <<"b", "@", "x">> }

InitLogin ==
    /\ keychain = storeCredentialsInKeychain([s \in Services |-> NoEntry], TRUE, TRUE,
                       RegisteredEmail, RegisteredPassword, RegisteredProfile).keychain
    /\ clock = 0
    /\ ret = [fn |-> "none"]
    /\ sessionLog = [fault |-> FALSE, cleared |-> FALSE, replaced |-> FALSE,
                     last |-> Null]
    /\ values = [email |-> <<>>, password |-> <<>>]
    /\ failedAttempts = 0
    /\ isLockedOut = FALSE
    /\ loginError = NoError
    /\ isSubmitting = FALSE
    /\ submissions = <<>>
    /\ userData = Null
    /\ route = "Login"
    /\ seqFails = 0
    /\ lastStep = [kind |-> "none", wasLocked |-> FALSE, calledValidate |-> FALSE]
    /\ asyncStorage = [k \in {SIGNUP_FORM_STORAGE_KEY} |-> Null]
    /\ signupValues = EmptyForm
    /\ signups = <<>>
    /\ registered = {toLowerCase(RegisteredEmail)}
    /\ storageQueue = <<>>
    /\ draftCleared = FALSE
    /\ calls = <<>>

\* the submissions awaiting validateCredentials
AwaitingValidation == {i \in 1..Len(submissions) : submissions[i].pc = "validateCredentials"}

Remove(seq, i) == SubSeq(seq, 1, i - 1) \o SubSeq(seq, i + 1, Len(seq))

ChangeEmail ==
    \E email \in LoginEmails :
        LET effect == emailChangeEffect(failedAttempts, isLockedOut, loginError) IN
        /\ route = "Login"
        /\ email # values.email
        /\ values' = [values EXCEPT !.email = email]
        /\ failedAttempts' = effect.failedAttempts
        /\ isLockedOut' = effect.isLockedOut
        /\ loginError' = effect.loginError
        /\ seqFails' = IF AwaitingValidation = {} THEN 0 ELSE -1
        /\ submissions' = [i \in 1..Len(submissions) |->
                               IF i \in AwaitingValidation
                               THEN [submissions[i] EXCEPT !.failsSinceChange = 0]
                               ELSE submissions[i]]
        /\ lastStep' = [kind |-> "changeEmail", wasLocked |-> isLockedOut,
                        calledValidate |-> FALSE]
        /\ UNCHANGED <<isSubmitting, userData, route>>
        /\ UNCHANGED keychainVars
        /\ UNCHANGED signupVars

ChangePassword ==
    \E password \in Passwords :
        /\ route = "Login"
        /\ password # values.password
        /\ values' = [values EXCEPT !.password = password]
        /\ lastStep' = [kind |-> "changePassword", wasLocked |-> isLockedOut,
                        calledValidate |-> FALSE]
        /\ UNCHANGED <<failedAttempts, isLockedOut, loginError, isSubmitting,
                       submissions, userData, route, seqFails>>
        /\ UNCHANGED keychainVars
        /\ UNCHANGED signupVars

\* formik.handleSubmit() on a valid form: onSubmit up to its first await
HandleSubmit ==
    /\ isValid(values)
    /\ IF isLockedOut
       THEN /\ loginError' = LockoutMessage
            /\ isSubmitting' = FALSE
            /\ UNCHANGED <<submissions, seqFails>>
       ELSE /\ Len(submissions) < MaxPending
            /\ loginError' = NoError
            /\ isSubmitting' = TRUE
            /\ submissions' = Append(submissions,
                   [pc |-> "validateCredentials", email |-> values.email,
                    password |-> values.password, failedAttempts |-> failedAttempts,
                    isValid |-> "pending", credential |-> Null,
                    failsSinceChange |-> -1])
            /\ seqFails' = IF AwaitingValidation = {} THEN seqFails ELSE -1
    /\ lastStep' = [kind |-> "submit", wasLocked |-> isLockedOut,
                    calledValidate |-> ~isLockedOut]
    /\ UNCHANGED <<values, failedAttempts, isLockedOut, userData, route>>
    /\ UNCHANGED keychainVars
    /\ UNCHANGED signupVars

\* the Login button: disabled={!formik.isValid || formik.isSubmitting || isLockedOut}
PressLogin ==
    /\ route = "Login"
    /\ ~isSubmitting
    /\ ~isLockedOut
    /\ HandleSubmit

\* the password field: onSubmitEditing={() => formik.handleSubmit()}
SubmitEditing ==
    /\ route = "Login"
    /\ HandleSubmit

\* await validateCredentials(values.email, values.password) resolves
ValidateReturns ==
    \E i \in AwaitingValidation, readOk \in BOOLEAN :
        LET sub == submissions[i]
            valid == validateCredentials(keychain, readOk, sub.email, sub.password)
            newAttempts == sub.failedAttempts + 1
            reset == resetOnSuccess(failedAttempts, isLockedOut)
            counted == [j \in 1..Len(submissions) |->
                           IF submissions[j].failsSinceChange = 0
                           THEN [submissions[j] EXCEPT !.failsSinceChange = 1]
                           ELSE submissions[j]]
        IN  /\ IF ~valid
               THEN /\ failedAttempts' = newAttempts
                    /\ IF lockoutReached(newAttempts)
                       THEN /\ isLockedOut' = TRUE
                            /\ loginError' = LockoutMessage
                       ELSE /\ loginError' =
                                 InvalidMessage(MAX_FAILED_ATTEMPTS - newAttempts)
                            /\ UNCHANGED isLockedOut
                    /\ isSubmitting' = FALSE
                    /\ submissions' = Remove(counted, i)
                    /\ seqFails' = IF seqFails >= 0 THEN seqFails + 1 ELSE -1
               ELSE /\ failedAttempts' = reset.failedAttempts
                    /\ isLockedOut' = reset.isLockedOut
                    /\ submissions' = [submissions EXCEPT ![i] =
                          [@ EXCEPT !.pc = "getCredentialByEmail", !.failedAttempts = 0,
                                    !.isValid = "true", !.failsSinceChange = -1]]
                    /\ seqFails' = IF AwaitingValidation = {i} THEN 0 ELSE -1
                    /\ UNCHANGED <<loginError, isSubmitting>>
            /\ lastStep' = [kind |-> IF valid THEN "validated" ELSE "validationFailed",
                            wasLocked |-> isLockedOut, calledValidate |-> FALSE,
                            submission |-> sub, attemptsBefore |-> failedAttempts]
            /\ UNCHANGED <<values, userData, route>>
            /\ UNCHANGED keychainVars
            /\ UNCHANGED signupVars

\* await getCredentialByEmail(values.email) resolves
GetCredentialReturns ==
    \E i \in 1..Len(submissions), readOk \in BOOLEAN :
        LET sub == submissions[i]
            credential == getCredentialByEmail(keychain, readOk, sub.email)
        IN  /\ sub.pc = "getCredentialByEmail"
            /\ IF afterGetCredential(credential) = "return"
               THEN /\ loginError' = UserDataNotFound
                    /\ isSubmitting' = FALSE
                    /\ submissions' = Remove(submissions, i)
               ELSE /\ submissions' = [submissions EXCEPT ![i] =
                          [@ EXCEPT !.pc = "createSession", !.credential = credential]]
                    /\ UNCHANGED <<loginError, isSubmitting>>
            /\ lastStep' = [kind |-> "getCredentialReturned", wasLocked |-> isLockedOut,
                            calledValidate |-> FALSE, submission |-> sub,
                            credential |-> credential]
            /\ UNCHANGED <<values, failedAttempts, isLockedOut, userData, route, seqFails>>
            /\ UNCHANGED keychainVars
            /\ UNCHANGED signupVars

\* await createSession(values.email) resolves
CreateSessionReturns ==
    \E i \in 1..Len(submissions), writeOk \in BOOLEAN :
        LET sub == submissions[i]
            r == createSession(keychain, writeOk, sub.email, clock)
        IN  /\ sub.pc = "createSession"
            /\ keychain' = r.keychain
            /\ IF ~r.result
               THEN /\ loginError' = FailedToCreateSession
                    /\ UNCHANGED <<userData, route>>
               ELSE /\ userData' = userDataOf(sub.credential)
                    /\ route' = "Home"
                    /\ UNCHANGED loginError
            /\ isSubmitting' = FALSE
            /\ submissions' = Remove(submissions, i)
            /\ lastStep' = [kind |-> "createSessionReturned", wasLocked |-> isLockedOut,
                            calledValidate |-> FALSE, result |-> r.result,
                            submission |-> sub]
            /\ UNCHANGED <<values, failedAttempts, isLockedOut, seqFails>>
            /\ UNCHANGED <<clock, ret, sessionLog>>
            /\ UNCHANGED signupVars

\* HomeScreen.handleLogout: clearUserData, clearSession,
\* clearUserDataFromKeychain, navigate('Login'); the login screen keeps its state
HandleLogout ==
    \E sessionResetOk \in BOOLEAN, userDataResetOk \in BOOLEAN :
        LET afterSession == clearSession(keychain, sessionResetOk).keychain IN
        /\ route = "Home"
        /\ userData' = Null
        /\ keychain' = clearUserDataFromKeychain(afterSession, userDataResetOk).keychain
        /\ route' = "Login"
        /\ lastStep' = [kind |-> "logout", wasLocked |-> isLockedOut,
                        calledValidate |-> FALSE, keychainBefore |-> keychain,
                        sessionResetOk |-> sessionResetOk,
                        userDataResetOk |-> userDataResetOk]
        /\ UNCHANGED <<values, failedAttempts, isLockedOut, loginError, isSubmitting,
                       submissions, seqFails>>
        /\ UNCHANGED <<clock, ret, sessionLog>>
        /\ UNCHANGED signupVars

NextLogin ==
    \/ HandleLogout
    \/ ChangeEmail
    \/ ChangePassword
    \/ PressLogin
    \/ SubmitEditing
    \/ ValidateReturns
    \/ GetCredentialReturns
    \/ CreateSessionReturns

SpecLogin == InitLogin /\ [][NextLogin]_vars

----------------------------------------------------------------------------
(* Properties of the login lockout counter (specification SpecLogin) *)

\* C4: starting from Active(0), with no email change and no successful
\* validation in between, after k failed login submissions completed one after
\* the other the screen is not locked out for every k < 5 (failedAttempts = k)
\* and is locked out exactly when k reaches 5.
C4_LockoutAfterFive ==
    seqFails >= 0 =>
        /\ seqFails <= 5
        /\ seqFails < 5 => (~isLockedOut /\ failedAttempts = seqFails)
        /\ seqFails = 5 => (isLockedOut /\ failedAttempts = 5)

\* the fifth failed submission in a row has just completed
C4_Witness ==
    /\ seqFails = 5
    /\ lastStep.kind = "validationFailed"
    /\ ~lastStep.wasLocked
    /\ isLockedOut

\* C5: once the login screen is LockedOut, every submit attempt is rejected with
\* the lockout message and never calls validateCredentials, and the screen stays
\* LockedOut until the email field changes.
C5_LockedOutUntilEmailChange ==
    (lastStep.wasLocked /\ lastStep.kind # "changeEmail") =>
        /\ isLockedOut
        /\ lastStep.kind = "submit" =>
              (loginError = LockoutMessage /\ ~lastStep.calledValidate)

\* C6: a change of the login email field, from any lockout state (Active(n) or
\* LockedOut), sets the state to Active(0): failedAttempts = 0 and
\* isLockedOut = false.
C6_EmailChangeResets ==
    lastStep.kind = "changeEmail" => (failedAttempts = 0 /\ ~isLockedOut)

\* the email field has just changed on a locked-out screen
C6_Witness ==
    /\ lastStep.kind = "changeEmail"
    /\ lastStep.wasLocked
    /\ failedAttempts = 0
    /\ ~isLockedOut

C18_Pending ==
    \A i \in 1..Len(submissions) :
        /\ submissions[i].pc \in {"getCredentialByEmail", "createSession"}
              => submissions[i].isValid = "true"
        /\ submissions[i].pc = "createSession" => submissions[i].credential # Null

C18_AfterStep ==
    (lastStep.kind = "createSessionReturned" /\ lastStep.result) =>
        LET sub == lastStep.submission IN
        /\ sub.isValid = "true"
        /\ sub.credential # Null
        /\ toLowerCase(sub.credential.email) = toLowerCase(sub.email)
        /\ userData = userDataOf(sub.credential)
        /\ route = "Home"
        /\ getSession(keychain, TRUE) # Null
        /\ getSession(keychain, TRUE).email = toLowerCase(sub.email)

C18_Step ==
    /\ (userData' # userData /\ userData' # Null)
        => (lastStep'.kind = "createSessionReturned" /\ lastStep'.result)
    /\ (route' = "Home" /\ route # "Home")
        => (lastStep'.kind = "createSessionReturned" /\ lastStep'.result)
    /\ lastStep'.kind = "validationFailed"
        => (keychain' = keychain /\ Len(submissions') = Len(submissions) - 1)
    /\ keychain'[SessionService] # keychain[SessionService]
        => lastStep'.kind \in {"createSessionReturned", "logout"}

\* C18: the login flow dispatches setUserData and navigates to Home only after
\* validateCredentials returned true, getCredentialByEmail returned a credential
\* and createSession returned true; at that moment the session slot holds a
\* session whose email is the lowercase of the submitted email.  A failed
\* validation never creates or changes a session.
C18_LoginOrder == [](C18_Pending /\ C18_AfterStep) /\ [][C18_Step]_vars

\* a login typed with the upper-case spelling of the registered email has just
\* dispatched the profile and navigated to Home
C18_Witness ==
    /\ lastStep.kind = "createSessionReturned"
    /\ lastStep.result
    /\ lastStep.submission.email # toLowerCase(lastStep.submission.email)
    /\ route = "Home"
    /\ userData = userDataOf(lastStep.submission.credential)
    /\ getSession(keychain, TRUE) # Null
    /\ getSession(keychain, TRUE).email = toLowerCase(lastStep.submission.email)

\* C11: when handleLogout has finished and the app has navigated to the Login
\* screen, the session slot is empty (getSession() returns null), whatever the
\* outcome of the underlying keychain reset call.
C11_LogoutEmptiesSession ==
    (lastStep.kind = "logout" /\ route = "Login") => getSession(keychain, TRUE) = Null

\* C23: at most one login submission is between its start and its completion:
\* a second onSubmit cannot begin while validateCredentials,
\* getCredentialByEmail or createSession of an earlier one is still pending,
\* whether it is triggered by the Login button or by the keyboard submit of the
\* password field.
C23_SingleFlight == Len(submissions) <= 1

\* C24: if the email field changes while a submission is awaiting
\* validateCredentials and that validation then fails, the first failure that
\* completes after the change yields failedAttempts = 1 and does not lock the
\* screen.
C24_CounterReflectsReset ==
    (lastStep.kind = "validationFailed" /\ lastStep.submission.failsSinceChange = 0)
        => (failedAttempts = 1 /\ ~isLockedOut)

C26_AfterValidated ==
    lastStep.kind = "validated" => (failedAttempts = 0 /\ ~isLockedOut)

C26_LaterSteps ==
    lastStep'.kind \in {"getCredentialReturned", "createSessionReturned"}
        => (failedAttempts' = failedAttempts /\ isLockedOut' = isLockedOut)

\* C26: when validateCredentials returns true for a login submission, the
\* lockout state becomes Active(0) (failedAttempts = 0, isLockedOut = false),
\* and the getCredentialByEmail and createSession steps that follow leave it
\* alone whether they succeed or not.
C26_SuccessResets == []C26_AfterValidated /\ [][C26_LaterSteps]_vars

\* a validation has just succeeded on a screen that had counted a failure
C26_Witness ==
    /\ lastStep.kind = "validated"
    /\ lastStep.attemptsBefore >= 1
    /\ failedAttempts = 0
    /\ ~isLockedOut

\* C29: in every reachable state of the login screen 0 <= failedAttempts <= 5,
\* and isLockedOut is true exactly when failedAttempts >= 5.
C29_CounterRange ==
    /\ 0 <= failedAttempts
    /\ failedAttempts <= MAX_FAILED_ATTEMPTS
    /\ isLockedOut <=> (failedAttempts >= MAX_FAILED_ATTEMPTS)

\* C30: in the login flow, when validateCredentials(email, password) returned
\* true and no upsert ran in between, the getCredentialByEmail(email) that
\* follows returns a credential whose password equals the submitted password, so
\* the 'User data not found' branch is not taken, for every outcome of the
\* individual keychain reads.
C30_CredentialFoundAfterValidation ==
    lastStep.kind = "getCredentialReturned" =>
        /\ lastStep.submission.isValid = "true"
        /\ lastStep.credential # Null
        /\ lastStep.credential.password = lastStep.submission.password
        /\ loginError # UserDataNotFound

----------------------------------------------------------------------------
(* keychainService and the app-start check over slots whose content the    *)
(* application did not necessarily write (SpecTampered): absent, corrupted, *)
(* encrypted under another key, not JSON, JSON of another shape.            *)

Credential_ax ==
    [email |-> <<"a", "@", "x">>, password |-> <<"p", "w", "1">>,
     firstName |-> "John", lastName |-> "Doe", phoneNumber |-> "1234567890"]

Entry(username, blob) == [kind |-> "entry", username |-> username, password |-> blob]

\* cipher text that is no AES output at all
CorruptedBlob == [kind |-> "garbage"]
\* AES output under a key that is not ENCRYPTION_KEY
WrongKeyBlob ==
    [kind |-> "aes", key |-> "AnotherKey",
     data |-> JSONstringify(<<Credential_ax>>, "array")]
\* AES output under ENCRYPTION_KEY of a text that is not JSON
NotJSONBlob == encryptData([kind |-> "text", text |-> "not json"])
\* well-formed JSON of other shapes
NullJSONBlob == encryptData(JSONstringify(Null, "null"))
SessionBlob(email) ==
    encryptData(JSONstringify([email |-> email, timestamp |-> 0], "object"))
CredentialListBlob == encryptData(JSONstringify(<<Credential_ax>>, "array"))

CredentialsSlotContents ==
    {NoEntry}
    \cup {Entry(CREDENTIALS_KEY, b) :
            b \in {CorruptedBlob, WrongKeyBlob, NotJSONBlob, NullJSONBlob,
                   SessionBlob(<<"a", "@", "x">>), CredentialListBlob}}

SessionSlotContents ==
    {NoEntry}
    \cup {Entry(SESSION_KEY, b) :
            b \in {CorruptedBlob, SessionBlob(<<"a", "@", "x">>),
                   SessionBlob(<<"b", "@", "x">>), CredentialListBlob}}

InitTampered ==
    /\ keychain \in {[s \in Services |->
                         IF s = CredentialsService THEN c
                         ELSE IF s = SessionService THEN e
                         ELSE NoEntry] :
                     c \in CredentialsSlotContents, e \in SessionSlotContents}
    /\ clock = 0
    /\ ret = [fn |-> "none"]
    /\ sessionLog = [fault |-> FALSE, cleared |-> FALSE, replaced |-> FALSE,
                     last |-> Null]
    /\ values = [email |-> <<>>, password |-> <<>>]
    /\ failedAttempts = 0
    /\ isLockedOut = FALSE
    /\ loginError = NoError
    /\ isSubmitting = FALSE
    /\ submissions = <<>>
    /\ userData = Null
    /\ route = "Splash"
    /\ seqFails = 0
    /\ lastStep = [kind |-> "none", wasLocked |-> FALSE, calledValidate |-> FALSE]
    /\ asyncStorage = [k \in {SIGNUP_FORM_STORAGE_KEY} |-> Null]
    /\ signupValues = EmptyForm
    /\ signups = <<>>
    /\ registered = {}
    /\ storageQueue = <<>>
    /\ draftCleared = FALSE
    /\ calls = <<>>

\* SplashScreen mounts: useEffect runs checkAuthenticationStatus
CheckAuthenticationStatus ==
    \E sessionReadOk \in BOOLEAN, credentialReadOk \in BOOLEAN :
        LET r == checkAuthenticationStatus(keychain, sessionReadOk, credentialReadOk) IN
        /\ route = "Splash"
        /\ userData' = IF r.dispatched # Null THEN r.dispatched ELSE userData
        /\ route' = IF r.navigations = <<>> THEN route
                    ELSE r.navigations[Len(r.navigations)]
        /\ lastStep' = [kind |-> "appStart", wasLocked |-> isLockedOut,
                        calledValidate |-> FALSE,
                        sessionReadOk |-> sessionReadOk,
                        credentialReadOk |-> credentialReadOk,
                        session |-> r.session, credential |-> r.credential,
                        dispatched |-> r.dispatched, navigations |-> r.navigations]
        /\ UNCHANGED <<values, failedAttempts, isLockedOut, loginError, isSubmitting,
                       submissions, seqFails>>
        /\ UNCHANGED keychainVars
        /\ UNCHANGED signupVars

NextTampered ==
    \/ GetCredentials
    \/ ValidateCredentials
    \/ GetCredentialByEmail
    \/ GetSession
    \/ CheckAuthenticationStatus

SpecTampered == InitTampered /\ [][NextTampered]_vars

\* the slot holds a blob that decrypts and parses to a list
HoldsCredentialList(entry) ==
    /\ entry.kind = "entry"
    /\ entry.password.kind = "aes"
    /\ entry.password.key = ENCRYPTION_KEY
    /\ entry.password.data.kind = "json"
    /\ entry.password.data.type = "array"

\* C15: getCredentialsFromKeychain returns the empty list whenever the
\* credentials slot is absent or holds a blob that does not decrypt and parse to
\* a list of credentials (corrupted, wrong key, or well-formed data of another
\* shape), and never throws to its caller.
C15_EmptyListOnUndecodable ==
    (ret.fn = "getCredentialsFromKeychain"
        /\ ~HoldsCredentialList(keychain[CredentialsService]))
      => ret.result = <<>>

\* C17: the app-start check navigates exactly once: to Home, after dispatching
\* the profile of the credential matching session.email, if and only if
\* getSession returned a session and getCredentialByEmail(session.email)
\* returned a credential; in every other case (no session, storage or decode
\* failure, credential missing) it navigates to Login and dispatches nothing.
C17_AppStartNavigation ==
    lastStep.kind = "appStart" =>
        LET found == lastStep.session.type # "null" /\ lastStep.credential # Null IN
        /\ lastStep.session = readSession(keychain, lastStep.sessionReadOk)
        /\ Len(lastStep.navigations) = 1
        /\ found =>
              /\ lastStep.navigations = <<"Home">>
              /\ route = "Home"
              /\ lastStep.session.type = "object"
              /\ lastStep.credential =
                    getCredentialByEmail(keychain, lastStep.credentialReadOk,
                                         lastStep.session.value.email)
              /\ toLowerCase(lastStep.credential.email)
                    = toLowerCase(lastStep.session.value.email)
              /\ userData = userDataOf(lastStep.credential)
        /\ ~found =>
              /\ lastStep.navigations = <<"Login">>
              /\ route = "Login"
              /\ lastStep.dispatched = Null
              /\ userData = Null

\* the check found a stored session and the credential of its email
C17_Witness ==
    /\ lastStep.kind = "appStart"
    /\ lastStep.session.type = "object"
    /\ lastStep.credential # Null
    /\ route = "Home"
    /\ userData = userDataOf(lastStep.credential)

----------------------------------------------------------------------------
(* The calls of keychainService that read the credentials and all calls of *)
(* the session manager, one account registered (SpecService)               *)

NextService ==
    \/ GetCredentials
    \/ ValidateCredentials
    \/ GetCredentialByEmail
    \/ CreateSession
    \/ GetSession
    \/ ClearSession

SpecService == InitLogin /\ [][NextService]_vars

\* C16: when the keychain call it makes rejects, validateCredentials returns
\* false, getCredentialByEmail returns null, getCredentialsFromKeychain returns
\* [], createSession returns false, getSession returns null and clearSession
\* returns false; each call resolves to that value instead of throwing.
C16_RejectedCallsCaught ==
    /\ (ret.fn = "validateCredentials" /\ ~ret.readOk) => ret.result = FALSE
    /\ (ret.fn = "getCredentialByEmail" /\ ~ret.readOk) => ret.result = Null
    /\ (ret.fn = "getCredentialsFromKeychain" /\ ~ret.readOk) => ret.result = <<>>
    /\ (ret.fn = "createSession" /\ ~ret.writeOk) => ret.result = FALSE
    /\ (ret.fn = "getSession" /\ ~ret.readOk) => ret.result = Null
    /\ (ret.fn = "clearSession" /\ ~ret.resetOk) => ret.result = FALSE
    /\ \A email \in Emails :
          /\ getCredentialByEmail(keychain, FALSE, email) = Null
          /\ \A password \in Passwords :
                ~validateCredentials(keychain, FALSE, email, password)
          /\ \A now \in 0..MaxClock :
                createSession(keychain, FALSE, email, now)
                    = [keychain |-> keychain, result |-> FALSE]
    /\ getCredentialsFromKeychain(keychain, FALSE) = <<>>
    /\ getSession(keychain, FALSE) = Null
    /\ clearSession(keychain, FALSE) = [keychain |-> keychain, result |-> FALSE]

\* the read of a stored session was rejected and getSession returned null
C16_Witness ==
    /\ ret.fn = "getSession"
    /\ ~ret.readOk
    /\ ret.result = Null
    /\ getSession(keychain, TRUE) # Null
    /\ validateCredentials(keychain, TRUE, RegisteredEmail, RegisteredPassword)

----------------------------------------------------------------------------
(* The application from its start: SplashScreen, SignUpScreen, HomeScreen  *)
(* (SpecApp).  The keychain starts empty.  A signup onSubmit invocation    *)
(* runs one step per awaited promise; the last field's onSubmitEditing     *)
(* calls formik.handleSubmit() whether or not a submission is under way.   *)
(* A change of the form values runs the effect that starts saveFormData in *)
(* the same step; the AsyncStorage calls issued settle one by one in the   *)
(* order of their issue (storageQueue).                                    *)

\* the form values the model types: a form with the password typed and the
\* rest still empty, and two complete forms
SignUpForms ==
    { [email |-> <<"a", "@", "x">>, password |-> <<"p", "w", "1">>,
       confirmPassword |-> <<>>, profile |-> EmptyProfile],
      [email |-> <<"A", "@", "X">>, password |-> <<"p", "w", "1">>,
       confirmPassword |-> <<"p", "w", "1">>,
       profile |-> [firstName |-> "John", lastName |-> "Doe",
                    phoneNumber |-> "1234567890"]],
      [email |-> <<"b", "@", "x">>, password |-> <<"P", "W", "1">>,
       confirmPassword |-> <<"P", "W", "1">>,
       profile |-> [firstName |-> "Jane", lastName |-> "Smith",
                    phoneNumber |-> "0987654321"]] }

InitApp ==
    /\ keychain = [s \in Services |-> NoEntry]
    /\ clock = 0
    /\ ret = [fn |-> "none"]
    /\ sessionLog = [fault |-> FALSE, cleared |-> FALSE, replaced |-> FALSE,
                     last |-> Null]
    /\ values = [email |-> <<>>, password |-> <<>>]
    /\ failedAttempts = 0
    /\ isLockedOut = FALSE
    /\ loginError = NoError
    /\ isSubmitting = FALSE
    /\ submissions = <<>>
    /\ userData = Null
    /\ route = "Splash"
    /\ seqFails = 0
    /\ lastStep = [kind |-> "none"]
    /\ asyncStorage = [k \in {SIGNUP_FORM_STORAGE_KEY} |-> Null]
    /\ signupValues = EmptyForm
    /\ signups = <<>>
    /\ registered = {}
    /\ storageQueue = <<>>
    /\ draftCleared = FALSE
    /\ calls = <<>>

\* AsyncStorage.setItem(SIGNUP_FORM_STORAGE_KEY, JSON.stringify(formData)) as
\* saveFormData issues it: the call joins the calls that have not settled yet
saveFormData(queue, v) ==
    Append(queue, [op |-> "setItem",
                   value |-> JSONstringify(formData(v), "object")])

\* the effect on formik.values: if (hasAnyValue) { saveFormData(); }
saveEffect(queue, v) == IF hasAnyValue(v) THEN saveFormData(queue, v) ELSE queue

\* LoginScreen: navigation.navigate('SignUp'); SignUpScreen mounts and
\* loadSavedFormData sets the initial values from the draft, if it can read one;
\* formik takes the new initial values and the effect on its values runs.  The
\* getItem is answered after the calls issued before it.
OpenSignUp ==
    \E getOk \in BOOLEAN :
        LET savedData == asyncStorage[SIGNUP_FORM_STORAGE_KEY]
            loaded == IF getOk /\ savedData # Null
                      THEN JSONparse(savedData).value
                      ELSE EmptyForm
        IN  /\ route = "Login"
            /\ storageQueue = <<>>
            /\ route' = "SignUp"
            /\ signupValues' = loaded
            /\ storageQueue' = saveEffect(storageQueue, loaded)
            /\ lastStep' = [kind |-> "openSignUp"]
            /\ UNCHANGED <<asyncStorage, signups, registered, draftCleared, calls>>
            /\ UNCHANGED <<values, failedAttempts, isLockedOut, loginError,
                           isSubmitting, submissions, userData, seqFails>>
            /\ UNCHANGED keychainVars

\* SignUpScreen: navigation.navigate('Login'); the form unmounts
BackToLogin ==
    /\ route = "SignUp"
    /\ route' = "Login"
    /\ signupValues' = EmptyForm
    /\ lastStep' = [kind |-> "backToLogin"]
    /\ UNCHANGED <<asyncStorage, signups, registered, storageQueue, draftCleared,
                   calls>>
    /\ UNCHANGED <<values, failedAttempts, isLockedOut, loginError, isSubmitting,
                   submissions, userData, seqFails>>
    /\ UNCHANGED keychainVars

\* the user edits the signup form (also back to all fields empty);
\* useEffect(..., [formik.values]) starts saveFormData when a field is filled in
ChangeSignUpValues ==
    \E v \in SignUpForms \cup {EmptyForm} :
        /\ route = "SignUp"
        /\ v # signupValues
        /\ Len(storageQueue) < MaxQueue
        /\ signupValues' = v
        /\ storageQueue' = saveEffect(storageQueue, v)
        /\ draftCleared' = FALSE
        /\ lastStep' = [kind |-> "changeSignUpValues"]
        /\ UNCHANGED <<asyncStorage, signups, registered, calls>>
        /\ UNCHANGED <<values, failedAttempts, isLockedOut, loginError, isSubmitting,
                       submissions, userData, route, seqFails>>
        /\ UNCHANGED keychainVars

\* the oldest AsyncStorage.setItem that has not settled resolves or rejects
\* (saveFormData catches the rejection)
SaveSettles ==
    \E setOk \in BOOLEAN :
        /\ storageQueue # <<>>
        /\ Head(storageQueue).op = "setItem"
        /\ asyncStorage' =
              IF setOk
              THEN [asyncStorage EXCEPT ![SIGNUP_FORM_STORAGE_KEY] =
                        Head(storageQueue).value]
              ELSE asyncStorage
        /\ storageQueue' = Tail(storageQueue)
        /\ lastStep' = [kind |-> "saveSettled", ok |-> setOk]
        /\ UNCHANGED <<signupValues, signups, registered, draftCleared, calls>>
        /\ UNCHANGED <<values, failedAttempts, isLockedOut, loginError, isSubmitting,
                       submissions, userData, route, seqFails>>
        /\ UNCHANGED keychainVars

\* formik.handleSubmit() on a valid signup form: onSubmit up to
\* await storeCredentialsInKeychain
SubmitSignUp ==
    /\ route = "SignUp"
    /\ isValidSignUp(signupValues)
    /\ Len(signups) < MaxSignUps
    /\ signups' = Append(signups,
           [pc |-> "storeCredentialsInKeychain", values |-> signupValues,
            credentialsSuccess |-> "pending", sessionSuccess |-> "pending"])
    /\ lastStep' = [kind |-> "submitSignUp"]
    /\ UNCHANGED <<asyncStorage, signupValues, registered, storageQueue,
                   draftCleared, calls>>
    /\ UNCHANGED <<values, failedAttempts, isLockedOut, loginError, isSubmitting,
                   submissions, userData, route, seqFails>>
    /\ UNCHANGED keychainVars

\* await storeCredentialsInKeychain(...) resolves
SignUpStoreReturns ==
    \E i \in 1..Len(signups), readOk \in BOOLEAN, writeOk \in BOOLEAN :
        LET sub == signups[i]
            r == storeCredentialsInKeychain(keychain, readOk, writeOk, sub.values.email,
                                            sub.values.password, sub.values.profile)
            next == afterStoreCredentials(r.result)
        IN  /\ sub.pc = "storeCredentialsInKeychain"
            /\ keychain' = r.keychain
            /\ registered' = IF r.result
                             THEN registered \cup {toLowerCase(sub.values.email)}
                             ELSE registered
            /\ signups' =
                  IF next = "return" THEN Remove(signups, i)
                  ELSE [signups EXCEPT ![i] =
                           [@ EXCEPT !.pc = next,
                                     !.credentialsSuccess =
                                         IF r.result THEN "true" ELSE "false"]]
            /\ lastStep' = [kind |-> "signUpStoreReturned", result |-> r.result,
                            readOk |-> readOk, writeOk |-> writeOk,
                            keychainBefore |-> keychain, next |-> next]
            /\ UNCHANGED <<asyncStorage, signupValues, storageQueue, draftCleared,
                           calls>>
            /\ UNCHANGED <<values, failedAttempts, isLockedOut, loginError,
                           isSubmitting, submissions, userData, route, seqFails>>
            /\ UNCHANGED <<clock, ret, sessionLog>>

\* await createSession(values.email) resolves; on success onSubmit goes on to
\* AsyncStorage.removeItem(SIGNUP_FORM_STORAGE_KEY) and awaits it
SignUpCreateSessionReturns ==
    \E i \in 1..Len(signups), writeOk \in BOOLEAN :
        LET sub == signups[i]
            r == createSession(keychain, writeOk, sub.values.email, clock)
            next == afterCreateSession(r.result)
        IN  /\ sub.pc = "createSession"
            /\ keychain' = r.keychain
            /\ signups' =
                  IF next = "return" THEN Remove(signups, i)
                  ELSE [signups EXCEPT ![i] =
                           [@ EXCEPT !.pc = next,
                                     !.sessionSuccess =
                                         IF r.result THEN "true" ELSE "false"]]
            /\ storageQueue' =
                  IF next = "return" THEN storageQueue
                  ELSE Append(storageQueue, [op |-> "removeItem", values |-> sub.values])
            /\ lastStep' = [kind |-> "signUpSessionReturned", result |-> r.result,
                            credentialsSuccess |-> sub.credentialsSuccess]
            /\ UNCHANGED <<asyncStorage, signupValues, registered, draftCleared, calls>>
            /\ UNCHANGED <<values, failedAttempts, isLockedOut, loginError,
                           isSubmitting, submissions, userData, route, seqFails>>
            /\ UNCHANGED <<clock, ret, sessionLog>>

\* await AsyncStorage.removeItem(SIGNUP_FORM_STORAGE_KEY) resolves, then
\* dispatch(setUserData(userData)) and navigate('Home'); or it rejects and the
\* catch ends the invocation
SignUpRemoveItemReturns ==
    \E i \in 1..Len(signups), removeOk \in BOOLEAN :
        LET sub == signups[i] IN
        /\ sub.pc = "removeItem"
        /\ storageQueue # <<>>
        /\ Head(storageQueue) = [op |-> "removeItem", values |-> sub.values]
        /\ storageQueue' = Tail(storageQueue)
        /\ IF removeOk
           THEN /\ asyncStorage' = [asyncStorage EXCEPT ![SIGNUP_FORM_STORAGE_KEY] = Null]
                /\ userData' = signupUserData(sub.values)
                /\ route' = "Home"
                /\ draftCleared' = TRUE
           ELSE UNCHANGED <<asyncStorage, userData, route, draftCleared>>
        /\ signups' = Remove(signups, i)
        /\ lastStep' = [kind |-> IF removeOk THEN "signUpDone" ELSE "signUpRemoveItemFailed",
                        credentialsSuccess |-> sub.credentialsSuccess,
                        sessionSuccess |-> sub.sessionSuccess,
                        values |-> sub.values]
        /\ UNCHANGED <<signupValues, registered, calls>>
        /\ UNCHANGED <<values, failedAttempts, isLockedOut, loginError, isSubmitting,
                       submissions, seqFails>>
        /\ UNCHANGED keychainVars

\* the process ends and the application is started again: the redux store and
\* the screens are new, the keychain and AsyncStorage are as they were left;
\* the AsyncStorage calls that had not settled are lost with the process
Relaunch ==
    /\ route # "Splash"
    /\ route' = "Splash"
    /\ userData' = Null
    /\ signupValues' = EmptyForm
    /\ signups' = <<>>
    /\ storageQueue' = <<>>
    /\ lastStep' = [kind |-> "relaunch"]
    /\ UNCHANGED <<asyncStorage, registered, draftCleared, calls>>
    /\ UNCHANGED <<values, failedAttempts, isLockedOut, loginError, isSubmitting,
                   submissions, seqFails>>
    /\ UNCHANGED keychainVars

NextApp ==
    \/ CheckAuthenticationStatus
    \/ OpenSignUp
    \/ BackToLogin
    \/ ChangeSignUpValues
    \/ SaveSettles
    \/ SubmitSignUp
    \/ SignUpStoreReturns
    \/ SignUpCreateSessionReturns
    \/ SignUpRemoveItemReturns
    \/ HandleLogout
    \/ Relaunch

SpecApp == InitApp /\ [][NextApp]_vars

----------------------------------------------------------------------------
(* Properties of the application flows (specification SpecApp) *)

\* C12: handleLogout (clearUserData, clearSession, clearUserDataFromKeychain)
\* leaves the credentials slot unchanged: the stored credential list after
\* logout equals the list before logout, so every email/password pair that
\* validated before logout still validates after it.
C12_LogoutKeepsCredentials ==
    lastStep.kind = "logout" =>
        /\ keychain[CredentialsService] = lastStep.keychainBefore[CredentialsService]
        /\ StoredCredentials = getCredentialsFromKeychain(lastStep.keychainBefore, TRUE)
        /\ \A email \in Emails, password \in Passwords :
              validateCredentials(lastStep.keychainBefore, TRUE, email, password)
                => validateCredentials(keychain, TRUE, email, password)

\* a logout whose two keychain resets succeeded removed the session and left
\* the two registered accounts
C12_Witness ==
    /\ lastStep.kind = "logout"
    /\ lastStep.sessionResetOk
    /\ lastStep.userDataResetOk
    /\ lastStep.keychainBefore[SessionService] # NoEntry
    /\ keychain[SessionService] = NoEntry
    /\ Len(StoredCredentials) = 2
    /\ validateCredentials(keychain, TRUE, <<"A", "@", "X">>, <<"p", "w", "1">>)

\* C13: once storeCredentialsInKeychain has returned true for an email, no later
\* signup, login, logout or app-start flow removes that email's entry from the
\* stored credential list, including flows in which individual keychain calls
\* fail.  (Of these flows only the signup writes the credentials slot.)
C13_CredentialNeverRemoved ==
    \A email \in registered : EntriesFor(StoredCredentials, email) # {}

C19_Pending ==
    \A i \in 1..Len(signups) :
        /\ signups[i].pc = "createSession" => signups[i].credentialsSuccess = "true"
        /\ signups[i].pc = "removeItem" =>
              /\ signups[i].credentialsSuccess = "true"
              /\ signups[i].sessionSuccess = "true"

C19_AfterStep ==
    /\ (lastStep.kind = "signUpStoreReturned" /\ ~lastStep.result) =>
          /\ lastStep.next = "return"
          /\ keychain[SessionService] = lastStep.keychainBefore[SessionService]
    /\ lastStep.kind = "signUpSessionReturned" => lastStep.credentialsSuccess = "true"
    /\ lastStep.kind = "signUpDone" =>
          /\ lastStep.credentialsSuccess = "true"
          /\ lastStep.sessionSuccess = "true"
          /\ asyncStorage[SIGNUP_FORM_STORAGE_KEY] = Null
          /\ userData = signupUserData(lastStep.values)
          /\ route = "Home"

C19_Step ==
    /\ (asyncStorage[SIGNUP_FORM_STORAGE_KEY] # Null
          /\ asyncStorage'[SIGNUP_FORM_STORAGE_KEY] = Null)
        => lastStep'.kind = "signUpDone"
    /\ (userData' # userData /\ userData' # Null /\ lastStep'.kind # "appStart")
        => lastStep'.kind = "signUpDone"
    /\ (route' = "Home" /\ route # "Home" /\ lastStep'.kind # "appStart")
        => lastStep'.kind = "signUpDone"
    /\ (keychain'[SessionService] # keychain[SessionService]
          /\ lastStep'.kind # "logout")
        => (lastStep'.kind = "signUpSessionReturned"
              /\ lastStep'.credentialsSuccess = "true")

\* C19: in the signup flow createSession is called only after
\* storeCredentialsInKeychain returned true, and the draft is cleared, the
\* profile dispatched and Home navigated only after createSession returned
\* true; when the upsert returns false the session slot is left unchanged.
C19_SignUpOrder == [](C19_Pending /\ C19_AfterStep) /\ [][C19_Step]_vars

\* a signup has just cleared the draft it had saved, dispatched the profile and
\* navigated to Home, with its credential and its session stored
C19_Witness ==
    /\ lastStep.kind = "signUpDone"
    /\ route = "Home"
    /\ userData = signupUserData(lastStep.values)
    /\ asyncStorage[SIGNUP_FORM_STORAGE_KEY] = Null
    /\ validateCredentials(keychain, TRUE, lastStep.values.email, lastStep.values.password)
    /\ getSession(keychain, TRUE) # Null
    /\ getSession(keychain, TRUE).email = toLowerCase(lastStep.values.email)

\* C20: in every reachable state a user's password is held in persistent storage
\* only inside an encrypted blob: no unencrypted persistent entry (including
\* the AsyncStorage signup draft) contains a password.
C20_PasswordOnlyEncrypted ==
    /\ \A service \in Services :
          keychain[service] # NoEntry => keychain[service].password.kind = "aes"
    /\ LET draft == asyncStorage[SIGNUP_FORM_STORAGE_KEY] IN
       draft # Null =>
          /\ draft.value.password = <<>>
          /\ draft.value.confirmPassword = <<>>

\* C21: whenever a flow (signup, login, app start) dispatches setUserData, the
\* dispatched profile's email, firstName, lastName and phoneNumber equal the
\* fields of the credential stored for that user, the email in its
\* lowercase-normalized form, and the profile carries no password.
C21_DispatchedProfile ==
    (\/ lastStep.kind = "signUpDone"
     \/ lastStep.kind = "appStart" /\ lastStep.dispatched # Null) =>
        LET stored == getCredentialByEmail(keychain, TRUE, userData.email) IN
        /\ DOMAIN userData = {"email", "firstName", "lastName", "phoneNumber"}
        /\ stored # Null
        /\ userData = userDataOf(stored)
        /\ userData.email = toLowerCase(userData.email)

\* C27: after a successful signup submission the AsyncStorage draft entry is
\* absent and stays absent until a signup field changes again, also when a
\* draft save started by an earlier field change had not settled yet.
C27_DraftStaysAbsent ==
    draftCleared => asyncStorage[SIGNUP_FORM_STORAGE_KEY] = Null

\* C28: after a change of a signup form field, once the save it triggers has
\* completed (every setItem issued has resolved), the persisted draft equals the
\* current form values, for every combination of field values, also when all
\* fields are empty again.
C28_DraftEqualsForm ==
    (/\ route = "SignUp"
     /\ storageQueue = <<>>
     /\ \/ lastStep.kind = "changeSignUpValues"
        \/ lastStep.kind = "saveSettled" /\ lastStep.ok) =>
        asyncStorage[SIGNUP_FORM_STORAGE_KEY] =
            JSONstringify(formData(signupValues), "object")

----------------------------------------------------------------------------
(* The keychainService calls and the app-start check next to each other    *)
(* (SpecFrame): which of them write the session slot.                      *)

\* one account is registered and the application has just been started
InitFrame ==
    /\ keychain = storeCredentialsInKeychain([s \in Services |-> NoEntry], TRUE, TRUE,
                       RegisteredEmail, RegisteredPassword, RegisteredProfile).keychain
    /\ clock = 0
    /\ ret = [fn |-> "none"]
    /\ sessionLog = [fault |-> FALSE, cleared |-> FALSE, replaced |-> FALSE,
                     last |-> Null]
    /\ values = [email |-> <<>>, password |-> <<>>]
    /\ failedAttempts = 0
    /\ isLockedOut = FALSE
    /\ loginError = NoError
    /\ isSubmitting = FALSE
    /\ submissions = <<>>
    /\ userData = Null
    /\ route = "Splash"
    /\ seqFails = 0
    /\ lastStep = [kind |-> "none"]
    /\ asyncStorage = [k \in {SIGNUP_FORM_STORAGE_KEY} |-> Null]
    /\ signupValues = EmptyForm
    /\ signups = <<>>
    /\ registered = {toLowerCase(RegisteredEmail)}
    /\ storageQueue = <<>>
    /\ draftCleared = FALSE
    /\ calls = <<>>

\* the registered user's credential is stored again, with either password
NextFrame ==
    \/ StoreCredentialsOf({RegisteredEmail}, Passwords, {RegisteredProfile})
    \/ ValidateCredentials
    \/ GetCredentialByEmail
    \/ CreateSession
    \/ GetSession
    \/ ClearSession
    \/ CheckAuthenticationStatus

SpecFrame == InitFrame /\ [][NextFrame]_vars

C25_Step ==
    keychain'[SessionService] # keychain[SessionService] =>
        /\ ret'.fn \in {"createSession", "clearSession"}
        /\ lastStep' = lastStep

----------------------------------------------------------------------------
(* storeCredentialsInKeychain calls that may run at the same time          *)
(* (SpecStore).  A call runs up to await getCredentialsFromKeychain() in   *)
(* the step that makes it, computes the updated list and calls             *)
(* Keychain.setGenericPassword in the step in which the read settles, and  *)
(* returns in the step in which the write settles.  startedAt, readAt and  *)
(* returnedAt are history: the position of each of these steps among the   *)
(* steps of all calls (0: not taken yet).                                  *)

Max(S) == CHOOSE n \in S : \A m \in S : m <= n

NextStamp ==
    1 + Max({0} \cup UNION {{calls[i].startedAt, calls[i].readAt, calls[i].returnedAt} :
                                i \in 1..Len(calls)})

\* storeCredentialsInKeychain(email, password, firstName, lastName, phoneNumber)
\* is called; at most MaxCalls calls are made
CallStore ==
    \E email \in Emails :
        /\ Len(calls) < MaxCalls
        /\ calls' = Append(calls,
               [pc |-> "getCredentialsFromKeychain", email |-> email,
                password |-> RegisteredPassword, profile |-> RegisteredProfile,
                readOk |-> FALSE, existingCredentials |-> <<>>,
                encryptedData |-> Null, result |-> "pending",
                startedAt |-> NextStamp, readAt |-> 0, returnedAt |-> 0])
        /\ UNCHANGED <<asyncStorage, signupValues, signups, registered, storageQueue,
                       draftCleared>>
        /\ UNCHANGED keychainVars
        /\ UNCHANGED loginVars

\* await getCredentialsFromKeychain() settles: the call builds the updated
\* list from what it read and goes on to Keychain.setGenericPassword
StoreReadReturns ==
    \E i \in 1..Len(calls), readOk \in BOOLEAN :
        LET call == calls[i]
            read == readCredentials(keychain, readOk)
        IN  /\ call.pc = "getCredentialsFromKeychain"
            /\ calls' = [calls EXCEPT ![i] =
                  IF read.type # "array"
                  THEN [call EXCEPT !.pc = "returned", !.readOk = readOk,
                                    !.result = "false", !.readAt = NextStamp,
                                    !.returnedAt = NextStamp]
                  ELSE [call EXCEPT
                          !.pc = "setGenericPassword",
                          !.readOk = readOk,
                          !.existingCredentials = read.value,
                          !.encryptedData = encryptData(JSONstringify(
                              updatedCredentials(read.value, call.email, call.password,
                                                 call.profile), "array")),
                          !.readAt = NextStamp]]
            /\ UNCHANGED <<asyncStorage, signupValues, signups, registered,
                           storageQueue, draftCleared>>
            /\ UNCHANGED keychainVars
            /\ UNCHANGED loginVars

\* await Keychain.setGenericPassword(CREDENTIALS_KEY, encryptedData, ...)
\* settles: return true, or the catch returns false
StoreWriteReturns ==
    \E i \in 1..Len(calls), writeOk \in BOOLEAN :
        LET call == calls[i] IN
        /\ call.pc = "setGenericPassword"
        /\ keychain' = IF writeOk
                       THEN setGenericPassword(keychain, CREDENTIALS_KEY,
                                               call.encryptedData, CredentialsService)
                       ELSE keychain
        /\ calls' = [calls EXCEPT ![i] =
              [call EXCEPT !.pc = "returned",
                           !.result = IF writeOk THEN "true" ELSE "false",
                           !.returnedAt = NextStamp]]
        /\ registered' = IF writeOk THEN registered \cup {toLowerCase(call.email)}
                         ELSE registered
        /\ UNCHANGED <<asyncStorage, signupValues, signups, storageQueue, draftCleared>>
        /\ UNCHANGED <<clock, ret, sessionLog>>
        /\ UNCHANGED loginVars

NextStore ==
    \/ CallStore
    \/ StoreReadReturns
    \/ StoreWriteReturns

SpecStore == Init /\ [][NextStore]_vars

\* the calls that returned true after a read that was answered
Stored == {i \in 1..Len(calls) : calls[i].result = "true" /\ calls[i].readOk}

\* the credential a call writes for its email
CredentialOf(call) ==
    [email |-> toLowerCase(call.email), password |-> call.password,
     firstName |-> call.profile.firstName, lastName |-> call.profile.lastName,
     phoneNumber |-> call.profile.phoneNumber]

Holds(list, credential) == \E k \in 1..Len(list) : list[k] = credential

\* both calls read the list before either of them wrote it
BothReadFirst(i, j) ==
    /\ calls[i].readAt < calls[i].returnedAt
    /\ calls[i].readAt < calls[j].returnedAt
    /\ calls[j].readAt < calls[i].returnedAt
    /\ calls[j].readAt < calls[j].returnedAt

\* every call returned before the next one was made
OneAfterTheOther ==
    \A i \in 1..Len(calls), j \in 1..Len(calls) :
        i < j => (calls[i].pc = "returned" /\ calls[i].returnedAt < calls[j].startedAt)

C22_Interleaved ==
    \A i \in Stored, j \in Stored :
        (/\ toLowerCase(calls[i].email) # toLowerCase(calls[j].email)
         /\ BothReadFirst(i, j)
         /\ calls[i].returnedAt < calls[j].returnedAt
         /\ \A k \in 1..Len(calls) :
               calls[k].result = "true" => calls[k].returnedAt <= calls[j].returnedAt
         /\ ~Holds(calls[j].existingCredentials, CredentialOf(calls[i])))
            => ~Holds(StoredCredentials, CredentialOf(calls[i]))

C22_Sequential ==
    (/\ OneAfterTheOther
     /\ \A i \in 1..Len(calls) : calls[i].pc = "returned" => i \in Stored) =>
        \A i \in Stored :
            (\A j \in Stored : j > i =>
                 toLowerCase(calls[j].email) # toLowerCase(calls[i].email))
                => Holds(StoredCredentials, CredentialOf(calls[i]))

\* C22: when two storeCredentialsInKeychain calls for different emails
\* interleave so that both read the list before either writes it, both return
\* true and the final list lacks the credential of the call that wrote first (a
\* lost update); when the calls do not interleave, the credentials of both are
\* in the list.
C22_LostUpdate == C22_Interleaved /\ C22_Sequential

\* two calls for different emails both read the empty list, both returned true,
\* and the list holds nothing for the email of the call that wrote first
C22_Witness ==
    /\ Len(calls) = 2
    /\ Stored = {1, 2}
    /\ BothReadFirst(1, 2)
    /\ calls[1].returnedAt < calls[2].returnedAt
    /\ toLowerCase(calls[1].email) # toLowerCase(calls[2].email)
    /\ EntriesFor(StoredCredentials, calls[1].email) = {}
    /\ EntriesFor(StoredCredentials, calls[2].email) # {}

====
